---- MODULE Spec2Model ----
(***************************************************************************)
(* Round-robin HTTP load balancer (cmd/balancer/main.go).                  *)
(*                                                                         *)
(* State: the server pool (backends with URL identity and Alive flag, the  *)
(* rotation counter `current`), the request-handling goroutines (one per   *)
(* in-flight request, each at a position inside lb / GetNextPeer / the     *)
(* ReverseProxy error handler, carrying its request context) and the       *)
(* health check goroutine.  The environment decides, each time, whether a  *)
(* forward succeeds and whether a TCP dial of the health check succeeds:   *)
(* both are free choices of the step that observes them.                   *)
(*                                                                         *)
(* Goroutines interleave at every access to shared memory: the atomic add  *)
(* and the atomic store on `current`, every IsAlive read and every         *)
(* SetAlive write.  Code between two such accesses is local to the         *)
(* goroutine and belongs to the step of the access that follows it.        *)
(*                                                                         *)
(* Specifications: Spec (concurrent requests and the health checker),      *)
(* SeqSpec (one request at a time on a pool in the middle of its life),    *)
(* DupSpec (SeqSpec's steps on a pool whose servers may share a URL),      *)
(* ConcSpec (concurrent GetNextPeer calls, nothing failing), HealthSpec    *)
(* (health check passes alone) and LiveSpec (requests and the health       *)
(* checker under fairness, every backend reachable).                       *)
(*                                                                         *)
(* `current` is a uint64; the counter starts at 0 and the runs explored    *)
(* here stay far below 2^64, so its wrap-around is outside the model.      *)
(***************************************************************************)
EXTENDS Integers, Sequences, FiniteSets, TLC

\* ---------------------------------------------------------------- bounds
\* pool size of the concurrent specification
ConcPool == 2
\* number of concurrently handled requests
NumReqs == 2
\* largest pool of the sequential specification
MaxPool == 4
\* GetNextPeer calls after which the sequential specification takes no new
\* request
MaxCalls == 5
\* largest initial value of `current` in the sequential specification
MaxStart == 4

\* largest pool of the specification whose servers may share a URL
MaxDupPool == 3

\* ------------------------------------------------------ program constants
\* context keys: const ( LOG_FILE_PATH = ...; Attempts int = iota; Retry )
Attempts == 1
Retry == 2
\* lb: if attempts > 3
MaxAttempts == 3
\* ErrorHandler: if retries < 3
MaxRetries == 3

VARIABLES
    urls,       \* urls[b]: identity (URL string) of backends[b], b in 0..n-1
    alive,      \* alive[b]: Server.Alive of backends[b]
    current,    \* ServerPool.current
    pc,         \* pc[r]: position of the goroutine handling request r
    ctx,        \* ctx[r]: the values of the request's context (key -> value)
    peer,       \* peer[r]: index of the backend whose proxy serves r
    next,       \* GetNextPeer local `next`
    i,          \* GetNextPeer local `i`
    hcpc,       \* position of the health check goroutine
    hcIdx,      \* HealthCheck: index of the backend of the current iteration
    hcAlive,    \* HealthCheck local `alive` (result of isServerAlive)
    \* ---- observation (history) variables, never read by the program
    start,      \* value of `current` in the initial state
    calls,      \* number of GetNextPeer calls made so far
    changed,    \* TRUE once some Alive flag has changed its value
    log,        \* log[r]: the forwards of request r, in order
    inspected,  \* inspected[r]: the IsAlive reads of r's latest GetNextPeer
    marked,     \* marked[r]: backends r's error handler marked dead and that
                \* no SetAlive(true) has touched since
    arrAlive,   \* arrAlive[r]: the backends that were alive when r arrived
    probed      \* the probe results of the observed health check pass, in
                \* pool order

vars == <<urls, alive, current, pc, ctx, peer, next, i, hcpc, hcIdx,
          hcAlive, start, calls, changed, log, inspected, marked,
          arrAlive, probed>>

Reqs == 1..NumReqs

\* number of backends: len(s.backends)
N == Cardinality(DOMAIN urls)
Backends == DOMAIN urls

\* --------------------------------------------------------------- context
\* context.Background(): no value for any key
EmptyCtx == [k \in {} |-> 0]

\* mutant: the new context is built on an empty one, not on c
WithValueFresh(c, key, val) == [k \in {key} |-> val]

\* context.WithValue(c, key, val): a new context, c is not modified
WithValue(c, key, val) ==
    [k \in (DOMAIN c) \cup {key} |-> IF k = key THEN val ELSE c[k]]

GetAttemptsFromContext(c) == IF Attempts \in DOMAIN c THEN c[Attempts] ELSE 1

\* mutant: the retries are looked up under the attempts key
GetRetryWrongKey(c) == IF Attempts \in DOMAIN c THEN c[Attempts] - 1 ELSE 0

GetRetryFromContext(c) == IF Retry \in DOMAIN c THEN c[Retry] ELSE 0

\* ------------------------------------------------------------ server pool
\* mutant: the counter is advanced by two
AddCurrentTwice(cur) == cur + 2

\* NextIndex: the value of `current` after atomic.AddUint64(&s.current, 1)
AddCurrent(cur) == cur + 1

\* mutant: the index is taken from the counter before the increment
NextIndexStale(cur) == cur % N

\* NextIndex: the returned index
NextIndex(cur) == AddCurrent(cur) % N

\* mutant: the scan stops one position early
ScanLimitShort(nxt) == N + nxt - 1

\* mutant: the scan runs one position too far
ScanLimitLong(nxt) == N + nxt + 1

\* GetNextPeer: l := len(s.backends) + next
ScanLimit(nxt) == N + nxt

\* mutant: the loop variable is stored instead of the index
StoredIndexRaw(iv) == iv

\* GetNextPeer: idx := i % len(s.backends), the value stored into `current`
StoredIndex(iv) == iv % N

\* mutant: SetAlive can only clear the flag
SetAliveOnlyDown(al, b, v) == [al EXCEPT ![b] = al[b] /\ v]

\* Server.SetAlive on backends[b]
SetAlive(al, b, v) == [al EXCEPT ![b] = v]

\* MarkServerStatus: the first backend (in pool order) whose URL string
\* equals the given one gets SetAlive(alive); then break
FirstMatch(u) ==
    IF \E b \in Backends : urls[b] = u
    THEN {CHOOSE b \in Backends :
              /\ urls[b] = u
              /\ \A d \in Backends : urls[d] = u => b <= d}
    ELSE {}

\* mutant: the matching backend's flag is inverted instead of set
MarkServerStatusToggle(al, u, v) ==
    [b \in Backends |-> IF b \in FirstMatch(u) THEN ~al[b] ELSE al[b]]

\* mutant: the scan never finds the backend, no flag is written
MarkServerStatusNone(al, u, v) == al

MarkServerStatus(al, u, v) ==
    [b \in Backends |-> IF b \in FirstMatch(u) THEN v ELSE al[b]]

\* mutant: the ceiling is hit one attempt early
AttemptsExceededEarly(c) == GetAttemptsFromContext(c) >= MaxAttempts

\* mutant: the ceiling is hit one attempt late
AttemptsExceededLate(c) == GetAttemptsFromContext(c) > MaxAttempts + 1

\* lb: attempts > 3
AttemptsExceeded(c) == GetAttemptsFromContext(c) > MaxAttempts

\* mutant: one more same-backend retry is allowed
MayRetryLate(c) == GetRetryFromContext(c) <= MaxRetries

\* ErrorHandler: retries < 3
MayRetry(c) == GetRetryFromContext(c) < MaxRetries

\* one entry of log[r]
Entry(r, b, c, sel) ==
    [peer |-> b, att |-> GetAttemptsFromContext(c),
     ret |-> GetRetryFromContext(c), sel |-> sel]

\* ------------------------------------------------------------ init states
NoPeer == 0

InitRequests ==
    /\ pc = [r \in Reqs |-> "lb"]
    /\ ctx = [r \in Reqs |-> EmptyCtx]
    /\ peer = [r \in Reqs |-> NoPeer]
    /\ next = [r \in Reqs |-> 0]
    /\ i = [r \in Reqs |-> 0]
    /\ log = [r \in Reqs |-> << >>]
    /\ inspected = [r \in Reqs |-> << >>]
    /\ marked = [r \in Reqs |-> {}]
    /\ arrAlive = [r \in Reqs |-> {b \in Backends : alive[b]}]
    /\ calls = 0
    /\ changed = FALSE

InitHealth ==
    /\ hcpc = "ticker"
    /\ hcIdx = 0
    /\ hcAlive = FALSE
    /\ probed = << >>

\* main: every configured server is added with Alive: true, current is the
\* zero value
Init ==
    /\ urls = [b \in 0..(ConcPool - 1) |-> b]
    /\ alive = [b \in 0..(ConcPool - 1) |-> TRUE]
    /\ current = 0
    /\ start = 0
    /\ InitRequests
    /\ InitHealth

\* a pool in the middle of its life: any size, any Alive flags (health checks
\* and error handlers have run), any counter value
InitSeq ==
    /\ \E n \in 1..MaxPool :
          /\ urls = [b \in 0..(n - 1) |-> b]
          /\ alive \in [0..(n - 1) -> BOOLEAN]
    /\ current \in 0..MaxStart
    /\ start = current
    /\ InitRequests
    /\ InitHealth

\* main with a configuration that may name the same URL more than once:
\* AddServer appends one Server per configured entry, each Alive: true
InitDup ==
    /\ \E n \in 2..MaxDupPool :
          /\ urls \in [0..(n - 1) -> 0..(n - 1)]
          /\ alive = [b \in 0..(n - 1) |-> TRUE]
    /\ current = 0
    /\ start = 0
    /\ InitRequests
    /\ InitHealth

\* a pool of any size with every backend alive and any counter value
InitConc ==
    /\ \E n \in 1..MaxPool :
          /\ urls = [b \in 0..(n - 1) |-> b]
          /\ alive = [b \in 0..(n - 1) |-> TRUE]
    /\ current \in 0..MaxStart
    /\ start = current
    /\ InitRequests
    /\ InitHealth

\* ---------------------------------------------------------------- requests
\* frame of the health checker and of the pool's fixed parts
HealthUnchanged == UNCHANGED <<hcpc, hcIdx, hcAlive, probed>>
PoolFixed == UNCHANGED <<urls, start>>
ArrivalFixed == UNCHANGED arrAlive

\* lb: attempts > 3 -> http.Error(503), return
LbReject(r) ==
    /\ pc[r] = "lb"
    /\ AttemptsExceeded(ctx[r])
    /\ pc' = [pc EXCEPT ![r] = "rejected"]
    /\ inspected' = [inspected EXCEPT ![r] = << >>]
    /\ UNCHANGED <<alive, current, ctx, peer, next, i, calls, changed, log,
                   marked>>
    /\ HealthUnchanged /\ PoolFixed /\ ArrivalFixed

\* lb -> GetNextPeer -> NextIndex: the atomic add, next := index, i := next
LbNextIndex(r) ==
    /\ pc[r] = "lb"
    /\ ~AttemptsExceeded(ctx[r])
    /\ current' = AddCurrent(current)
    /\ next' = [next EXCEPT ![r] = NextIndex(current)]
    /\ i' = [i EXCEPT ![r] = NextIndex(current)]
    /\ calls' = calls + 1
    /\ inspected' = [inspected EXCEPT ![r] = << >>]
    /\ pc' = [pc EXCEPT ![r] = "scan"]
    /\ UNCHANGED <<alive, ctx, peer, changed, log, marked>>
    /\ HealthUnchanged /\ PoolFixed /\ ArrivalFixed

\* GetNextPeer loop body, s.backends[idx].IsAlive() is true: the peer is
\* found; the store to `current` (when i != next) is a later step
ScanAlive(r) ==
    /\ pc[r] = "scan"
    /\ LET idx == i[r] % N IN
          /\ alive[idx]
          /\ inspected' = [inspected EXCEPT
                              ![r] = Append(@, [idx |-> idx, alive |-> TRUE])]
          /\ peer' = [peer EXCEPT ![r] = idx + 1]
          /\ IF i[r] # next[r]
             THEN /\ pc' = [pc EXCEPT ![r] = "store"]
                  /\ log' = log
             ELSE /\ pc' = [pc EXCEPT ![r] = "forward"]
                  /\ log' = [log EXCEPT
                                ![r] = Append(@, Entry(r, idx, ctx[r], TRUE))]
    /\ UNCHANGED <<alive, current, ctx, next, i, calls, changed, marked>>
    /\ HealthUnchanged /\ PoolFixed /\ ArrivalFixed

\* GetNextPeer loop body, IsAlive() is false: i++; the loop ends, and
\* GetNextPeer returns nil and lb answers 503, when i reaches l
ScanDead(r) ==
    /\ pc[r] = "scan"
    /\ LET idx == i[r] % N IN
          /\ ~alive[idx]
          /\ inspected' = [inspected EXCEPT
                              ![r] = Append(@, [idx |-> idx, alive |-> FALSE])]
    /\ i' = [i EXCEPT ![r] = @ + 1]
    /\ pc' = [pc EXCEPT ![r] = IF i[r] + 1 < ScanLimit(next[r])
                               THEN "scan" ELSE "rejected"]
    /\ UNCHANGED <<alive, current, ctx, peer, next, calls, changed, log,
                   marked>>
    /\ HealthUnchanged /\ PoolFixed /\ ArrivalFixed

\* GetNextPeer: atomic.StoreUint64(&s.current, uint64(idx)); return; then
\* lb calls peer.ReverseProxy.ServeHTTP
StoreCurrent(r) ==
    /\ pc[r] = "store"
    /\ current' = StoredIndex(i[r])
    /\ pc' = [pc EXCEPT ![r] = "forward"]
    /\ log' = [log EXCEPT ![r] = Append(@, Entry(r, i[r] % N, ctx[r], TRUE))]
    /\ UNCHANGED <<alive, ctx, peer, next, i, calls, changed, inspected,
                   marked>>
    /\ HealthUnchanged /\ PoolFixed /\ ArrivalFixed

\* the proxy forwards the request and the backend answers
ForwardOk(r) ==
    /\ pc[r] = "forward"
    /\ pc' = [pc EXCEPT ![r] = "success"]
    /\ UNCHANGED <<alive, current, ctx, peer, next, i, calls, changed, log,
                   inspected, marked>>
    /\ HealthUnchanged /\ PoolFixed /\ ArrivalFixed

\* the forward fails, ErrorHandler runs with retries < 3: after
\* <-time.After(...) the same proxy serves the request with the context
\* WithValue(Retry, retries+1)
ErrorRetry(r) ==
    /\ pc[r] = "forward"
    /\ MayRetry(ctx[r])
    /\ LET c == WithValue(ctx[r], Retry, GetRetryFromContext(ctx[r]) + 1) IN
          /\ ctx' = [ctx EXCEPT ![r] = c]
          /\ log' = [log EXCEPT
                        ![r] = Append(@, Entry(r, peer[r] - 1, c, FALSE))]
    /\ pc' = [pc EXCEPT ![r] = "forward"]
    /\ UNCHANGED <<alive, current, peer, next, i, calls, changed, inspected,
                   marked>>
    /\ HealthUnchanged /\ PoolFixed /\ ArrivalFixed

\* the forward fails, ErrorHandler runs with retries >= 3: it marks the
\* backend down and calls lb with the context WithValue(Attempts, attempts+1)
ErrorEscalate(r) ==
    /\ pc[r] = "forward"
    /\ ~MayRetry(ctx[r])
    /\ alive' = MarkServerStatus(alive, urls[peer[r] - 1], FALSE)
    /\ changed' = (changed \/ alive' # alive)
    /\ marked' = [marked EXCEPT ![r] = @ \cup {peer[r] - 1}]
    /\ ctx' = [ctx EXCEPT
                  ![r] = WithValue(@, Attempts,
                                   GetAttemptsFromContext(@) + 1)]
    /\ pc' = [pc EXCEPT ![r] = "lb"]
    /\ UNCHANGED <<current, peer, next, i, calls, log, inspected>>
    /\ HealthUnchanged /\ PoolFixed /\ ArrivalFixed

Step(r) ==
    \/ LbReject(r)
    \/ LbNextIndex(r)
    \/ ScanAlive(r)
    \/ ScanDead(r)
    \/ StoreCurrent(r)
    \/ ForwardOk(r)
    \/ ErrorRetry(r)
    \/ ErrorEscalate(r)

\* ------------------------------------------------------------ health check
RequestsUnchanged ==
    UNCHANGED <<pc, ctx, peer, next, i, calls, log, inspected>>

\* healthCheck: case <-t.C: the pass starts with the first backend
HealthTickStep ==
    /\ hcpc = "ticker"
    /\ hcpc' = "probe"
    /\ hcIdx' = 0
    /\ UNCHANGED <<alive, current, hcAlive, changed, marked>>
    /\ RequestsUnchanged /\ PoolFixed /\ ArrivalFixed

HealthTick == HealthTickStep /\ UNCHANGED probed

\* HealthCheck: alive := isServerAlive(b.URL): the TCP dial succeeds or not
HealthProbeStep ==
    /\ hcpc = "probe"
    /\ hcAlive' \in BOOLEAN
    /\ hcpc' = "set"
    /\ UNCHANGED <<alive, current, hcIdx, changed, marked>>
    /\ RequestsUnchanged /\ PoolFixed /\ ArrivalFixed

HealthProbe == HealthProbeStep /\ UNCHANGED probed

\* HealthCheck: b.SetAlive(alive); next backend, or the pass is over
HealthSet ==
    /\ hcpc = "set"
    /\ alive' = SetAlive(alive, hcIdx, hcAlive)
    /\ changed' = (changed \/ alive' # alive)
    /\ marked' = [r \in Reqs |->
                     IF hcAlive THEN marked[r] \ {hcIdx} ELSE marked[r]]
    /\ IF hcIdx + 1 < N
       THEN hcIdx' = hcIdx + 1 /\ hcpc' = "probe"
       ELSE hcIdx' = 0 /\ hcpc' = "ticker"
    /\ hcAlive' = FALSE
    /\ UNCHANGED <<current, probed>>
    /\ RequestsUnchanged /\ PoolFixed /\ ArrivalFixed

\* ---------------------------------------------------------- specifications
\* NumReqs requests, each handled by its own goroutine, and the health
\* checker, interleaved
Next ==
    \/ \E r \in 1..NumReqs : Step(r)
    \/ HealthTick
    \/ HealthProbe
    \/ HealthSet

Spec == Init /\ [][Next]_vars

\* the response is written and the next request arrives, with a fresh
\* context, at lb
NextRequest(r) ==
    /\ pc[r] \in {"success", "rejected"}
    /\ calls < MaxCalls
    /\ pc' = [pc EXCEPT ![r] = "lb"]
    /\ ctx' = [ctx EXCEPT ![r] = EmptyCtx]
    /\ peer' = [peer EXCEPT ![r] = NoPeer]
    /\ log' = [log EXCEPT ![r] = << >>]
    /\ inspected' = [inspected EXCEPT ![r] = << >>]
    /\ marked' = [marked EXCEPT ![r] = {}]
    /\ arrAlive' = [arrAlive EXCEPT ![r] = {b \in Backends : alive[b]}]
    /\ UNCHANGED <<alive, current, next, i, calls, changed>>
    /\ HealthUnchanged /\ PoolFixed

\* one request at a time, no health check
NextSeq ==
    \/ Step(1)
    \/ NextRequest(1)

SeqSpec == InitSeq /\ [][NextSeq]_vars

\* one request at a time, no health check, on a pool whose servers may
\* share a URL
DupSpec == InitDup /\ [][NextSeq]_vars

\* the response is written and the goroutine's next request arrives at lb;
\* the forwards observed so far are kept
NextCall(r) ==
    /\ pc[r] = "success"
    /\ calls < MaxCalls
    /\ pc' = [pc EXCEPT ![r] = "lb"]
    /\ ctx' = [ctx EXCEPT ![r] = EmptyCtx]
    /\ peer' = [peer EXCEPT ![r] = NoPeer]
    /\ inspected' = [inspected EXCEPT ![r] = << >>]
    /\ UNCHANGED <<alive, current, next, i, calls, changed, log, marked>>
    /\ HealthUnchanged /\ PoolFixed /\ ArrivalFixed

\* NumReqs goroutines call GetNextPeer concurrently, again and again; every
\* backend is alive, every forward succeeds and no health check runs, so no
\* status changes
NextConc ==
    \E r \in Reqs :
        \/ LbNextIndex(r)
        \/ ScanAlive(r)
        \/ ForwardOk(r)
        \/ NextCall(r)

ConcSpec == InitConc /\ [][NextConc]_vars

\* the health check steps with the probe results of the pass recorded
HealthTickObserved == HealthTickStep /\ probed' = << >>

HealthProbeObserved == HealthProbeStep /\ probed' = Append(probed, hcAlive')

\* health check passes on a pool in the middle of its life, nothing else
\* running
NextHealth ==
    \/ HealthTickObserved
    \/ HealthProbeObserved
    \/ HealthSet

HealthSpec == InitSeq /\ [][NextHealth]_vars

\* HealthCheck's probe when every backend is reachable: the TCP dial succeeds
HealthProbeUp == HealthProbe /\ hcAlive'

\* requests arrive one after the other and their forwards may fail, while
\* every backend stays reachable to the health check's dial
NextLive ==
    \/ Step(1)
    \/ NextRequest(1)
    \/ HealthTick
    \/ HealthProbeUp
    \/ HealthSet

\* the ticker of healthCheck fires again and again and the pass it starts
\* runs to its end; the goroutine handling a request keeps running (forwards
\* complete, waits elapse); requests keep arriving
LiveSpec ==
    /\ Init
    /\ [][NextLive]_vars
    /\ WF_vars(HealthTick)
    /\ WF_vars(HealthProbeUp)
    /\ WF_vars(HealthSet)
    /\ WF_vars(Step(1))
    /\ WF_vars(NextRequest(1))

\* ------------------------------------------------------------------ claims
AliveSet == {b \in Backends : alive[b]}

\* GetNextPeer has returned a backend to request r
Selected(r) == pc[r] \in {"store", "forward", "success"}

\* the selections (GetNextPeer results) among the forwards of r
Selections(r) == SelectSeq(log[r], LAMBDA e : e.sel)

\* C1: with all n backends alive and no status change, the k-th sequential
\* GetNextPeer call after counter value c returns backends[(c+k) mod n], so
\* n consecutive calls return n distinct backends; pool [A,B,C] from counter
\* 0 returns B, C, A, B.
C1_RoundRobin ==
    (AliveSet = Backends /\ ~changed /\ Selected(1)) =>
        /\ peer[1] - 1 = (start + calls) % N
        /\ pc[1] # "store"
        /\ (N = 3 /\ start = 0 /\ calls <= 4) =>
               peer[1] - 1 = <<1, 2, 0, 1>>[calls]

C1_Witness ==
    /\ N = 3 /\ start = 0 /\ calls = 4
    /\ AliveSet = Backends /\ ~changed
    /\ pc[1] = "success" /\ peer[1] - 1 = 1

\* C5: with exactly one backend alive and no status change, every
\* GetNextPeer call returns that backend, whatever the counter is.
C5_OnlyAlive ==
    (Cardinality(AliveSet) = 1 /\ ~changed) =>
        /\ pc[1] # "rejected"
        /\ Selected(1) => peer[1] - 1 \in AliveSet

C5_Witness ==
    /\ N = 2 /\ AliveSet = {1} /\ ~changed
    /\ calls >= 3 /\ start = 1
    /\ pc[1] = "success" /\ peer[1] - 1 = 1

\* C6: with no backend alive, every GetNextPeer call returns none, after
\* inspecting each of the n positions exactly once.
C6_NoneAlive ==
    (AliveSet = {} /\ ~changed) =>
        /\ ~Selected(1)
        /\ Len(inspected[1]) <= N
        /\ pc[1] = "rejected" =>
              /\ Len(inspected[1]) = N
              /\ {inspected[1][k].idx : k \in 1..N} = Backends

C6_Witness ==
    /\ N = 3 /\ AliveSet = {} /\ calls >= 2
    /\ pc[1] = "rejected" /\ Len(inspected[1]) = 3

\* the forwards of request r made with the attempts counter equal to a
ForwardsOf(r, a) == SelectSeq(log[r], LAMBDA e : e.att = a)

\* C2: a request whose every forward fails gives, on each of its attempts
\* 1, 2 and 3, exactly 3 same-backend retries to the selected backend, the
\* retries counter running from 0 within that attempt, before the backend is
\* marked dead and the request escalates.
C2_RetriesPerAttempt ==
    \A a \in 1..3 :
        GetAttemptsFromContext(ctx[1]) > a =>
            LET es == ForwardsOf(1, a) IN
                /\ Len(es) = 4
                /\ es[1].sel
                /\ \A k \in 1..4 : es[k].ret = k - 1 /\ es[k].peer = es[1].peer

\* what the code does on the attempts after the first (not a claim formula):
\* the backend is marked dead after a single forward, made with retries = 3
C2_Observed ==
    \A a \in 2..3 :
        GetAttemptsFromContext(ctx[1]) > a =>
            /\ Len(ForwardsOf(1, a)) = 1
            /\ ForwardsOf(1, a)[1].ret = 3

\* C3: with at least 3 backends alive when it arrives and nothing else
\* running, a request whose every forward fails is dispatched to exactly 3
\* backends (attempts 1, 2, 3), each of them ends up marked dead, and lb
\* answers 503 when entered with attempts = 4, selecting no fourth backend.
C3_ThreeBackends ==
    (pc[1] = "rejected" /\ Cardinality(arrAlive[1]) >= 3) =>
        LET sel == Selections(1) IN
            /\ GetAttemptsFromContext(ctx[1]) = 4
            /\ Len(sel) = 3
            /\ \A k \in 1..3 : sel[k].att = k /\ ~alive[sel[k].peer]
            /\ Cardinality({sel[k].peer : k \in 1..3}) = 3
            /\ inspected[1] = << >>

C3_Witness ==
    /\ pc[1] = "rejected"
    /\ Cardinality(arrAlive[1]) >= 3
    /\ GetAttemptsFromContext(ctx[1]) = 4
    /\ Len(Selections(1)) = 3

\* the identities a caller may pass to MarkServerStatus: those of the pool
\* and one that matches no backend
Identities == {urls[b] : b \in Backends} \cup {N}

\* C10: MarkServerStatus is idempotent: for every pool state, identity and
\* alive value, a second call with the same arguments leaves the alive flags
\* (and the counter, which no call touches) as the first call left them.
C10_MarkIdempotent ==
    /\ [](\A u \in Identities, v \in BOOLEAN :
             MarkServerStatus(MarkServerStatus(alive, u, v), u, v)
                 = MarkServerStatus(alive, u, v))
    /\ [][\A r \in Reqs :
             (pc[r] = "forward" /\ pc'[r] = "lb") =>
                 /\ current' = current
                 /\ MarkServerStatus(alive', urls[peer[r] - 1], FALSE) = alive'
         ]_vars

C10_Witness ==
    /\ changed
    /\ \E b \in Backends : ~alive[b] /\ b \in marked[1]
    /\ \E u \in Identities : MarkServerStatus(alive, u, FALSE) # alive

C7_RejectedOnlyIfNoneAlive ==
    [][\A r \in Reqs :
          (pc[r] # "rejected" /\ pc'[r] = "rejected") =>
              (GetAttemptsFromContext(ctx[r]) > 3 \/ AliveSet = {})
      ]_vars

\* C7, amended: a request is rejected only when its attempts exceed 3 or its
\* scan has read every one of the n backends and found each dead at the
\* moment it was read.
C7_RejectedOnlyIfAllSeenDead ==
    \A r \in Reqs :
        pc[r] = "rejected" =>
            \/ GetAttemptsFromContext(ctx[r]) > 3
            \/ /\ Len(inspected[r]) = N
               /\ {inspected[r][k].idx : k \in 1..N} = Backends
               /\ \A k \in 1..N : ~inspected[r][k].alive

C7_Witness ==
    \E r \in Reqs :
        /\ pc[r] = "rejected"
        /\ GetAttemptsFromContext(ctx[r]) <= 3
        /\ Len(inspected[r]) = N
        /\ AliveSet # {}

\* C8: entered with attempts > 3, lb answers 503 and stops: no GetNextPeer
\* call, no change of the counter or of any alive flag, no forward.
C8_RejectWithoutEffect ==
    [][\A r \in Reqs :
          (pc[r] = "lb" /\ GetAttemptsFromContext(ctx[r]) > 3
              /\ pc'[r] # pc[r]) =>
                  /\ pc'[r] = "rejected"
                  /\ current' = current
                  /\ alive' = alive
                  /\ calls' = calls
                  /\ log'[r] = log[r]
                  /\ inspected'[r] = << >>
      ]_vars

C8_Witness ==
    \E r \in Reqs :
        /\ pc[r] = "rejected"
        /\ GetAttemptsFromContext(ctx[r]) = 4
        /\ inspected[r] = << >>

Terminal(r) == pc[r] \in {"success", "rejected"}

\* a bound on the steps request r can still take: those left at its position
\* in lb / GetNextPeer, one per retry left, N + 3 per attempt left
StepsLeft(r) ==
    LET here == CASE pc[r] = "lb" -> N + 3
                  [] pc[r] = "scan" -> ScanLimit(next[r]) - i[r] + 2
                  [] pc[r] = "store" -> 2
                  [] pc[r] = "forward" -> 1
                  [] OTHER -> 0
    IN  (MaxAttempts + 1 - GetAttemptsFromContext(ctx[r])) * (N + 3)
            + (MaxRetries - GetRetryFromContext(ctx[r])) + here

\* C9: under any interleaving with the health checker and other requests,
\* every request reaches Success or Rejected, given that its forwards
\* complete and its waits elapse: a request that has not ended can always
\* take a step, whatever the others do; each of its steps lowers StepsLeft,
\* which is never negative; and the two ceilings bound its forwards (by 3
\* attempts of 1 + 3 forwards each).
C9_Terminates ==
    /\ [](\A r \in Reqs :
             /\ StepsLeft(r) >= 0
             /\ ~Terminal(r) => ENABLED Step(r)
             /\ Len(log[r]) <= MaxAttempts * (MaxRetries + 1))
    /\ [][\A r \in Reqs : Step(r) => StepsLeft(r)' < StepsLeft(r)]_vars

C9_Witness ==
    /\ \A r \in Reqs : Terminal(r)
    /\ \E r \in Reqs : pc[r] = "rejected" /\ Len(log[r]) = 6
    /\ \E r \in Reqs : pc[r] = "success" /\ Len(log[r]) > 1
    /\ changed

\* the backends whose URL is u
WithIdentity(u) == {b \in Backends : urls[b] = u}

\* C11: when two backends have the same identity, MarkServerStatus(identity,
\* v) leaves both with the alive flag equal to v: for every identity and
\* value in every reachable pool state, and at every call the error handler
\* makes.
C11_DuplicatesTreatedAlike ==
    /\ [](\A u \in Identities, v \in BOOLEAN :
             \A b \in WithIdentity(u) : MarkServerStatus(alive, u, v)[b] = v)
    /\ [][\A r \in Reqs :
             (pc[r] = "forward" /\ pc'[r] = "lb") =>
                 \A b \in WithIdentity(urls[peer[r] - 1]) : ~alive'[b]
         ]_vars

\* what the code does (not a claim formula): only the first backend with the
\* identity is written, every other flag is left as it was
C11_Observed ==
    \A u \in Identities, v \in BOOLEAN :
        \A b \in Backends :
            MarkServerStatus(alive, u, v)[b]
                = IF b \in FirstMatch(u) THEN v ELSE alive[b]

\* request r makes the atomic add of NextIndex in this step
AddsCurrent(r) == pc[r] = "lb" /\ pc'[r] = "scan"

\* request r makes the atomic store of GetNextPeer in this step
StoresCurrent(r) == pc[r] = "store" /\ pc'[r] = "forward"

\* C12 as stated: under any interleaving of NextIndex, GetNextPeer,
\* MarkServerStatus and HealthCheck the counter never decreases.
C12_CursorMonotonic == [][current' >= current]_vars

\* C12, amended: every NextIndex call increases the counter by exactly one;
\* GetNextPeer, when it returns a backend found after skipping a dead one,
\* overwrites the counter with that backend's index, a value in 0..n-1 that
\* may be lower than the value before; no other step (an IsAlive read,
\* MarkServerStatus, a HealthCheck step) changes the counter.
C12_CursorWrites ==
    [][/\ \A r \in Reqs : AddsCurrent(r) => current' = current + 1
       /\ \A r \in Reqs :
              StoresCurrent(r) =>
                  /\ current' = peer[r] - 1
                  /\ current' \in Backends
                  /\ Len(inspected[r]) > 1
       /\ (\A r \in Reqs : ~AddsCurrent(r) /\ ~StoresCurrent(r)) =>
              current' = current
      ]_vars

\* a store has lowered the counter below the number of increments made
C12_Witness ==
    \E r \in Reqs :
        /\ pc[r] = "forward"
        /\ Len(inspected[r]) > 1
        /\ current = peer[r] - 1
        /\ current < calls
        /\ \E b \in Backends : b \in marked[r]

\* the GetNextPeer calls made so far that received index b from NextIndex:
\* those that went on to forward to b and those still in their scan
Received(b) ==
    Cardinality({p \in UNION {{<<r, k>> : k \in DOMAIN log[r]} : r \in Reqs} :
                     log[p[1]][p[2]].sel /\ log[p[1]][p[2]].peer = b})
        + Cardinality({r \in Reqs : pc[r] = "scan" /\ next[r] = b})

\* C13: with all backends alive and no status change, under any
\* interleaving of m concurrent GetNextPeer calls no increment is lost: the
\* counter has advanced by exactly m, the calls have received the m
\* consecutive counter values start+1 .. start+m (so backend b was received
\* once per k in 1..m with (start+k) mod n = b), and after n*k calls every
\* backend has been selected exactly k times.
C13_NoLostIncrement ==
    (AliveSet = Backends /\ ~changed) =>
        /\ current = start + calls
        /\ \A r \in Reqs : pc[r] # "store"
        /\ \A b \in Backends :
               Received(b) = Cardinality({k \in 1..calls : (start + k) % N = b})
        /\ calls % N = 0 => \A b \in Backends : Received(b) = calls \div N

\* two goroutines have made 2*2 calls on a pool of 2, their calls
\* interleaved so that each goroutine got the same backend twice
C13_Witness ==
    /\ N = 2 /\ calls = 4
    /\ \A r \in Reqs : pc[r] = "success"
    /\ Len(log[1]) = 2 /\ log[1][1].peer = log[1][2].peer
    /\ \A b \in Backends : Received(b) = 2

\* the offsets j in 0..n-1 at which the scan that starts at index s finds an
\* alive backend
AliveOffsets(s) == {j \in 0..(N - 1) : alive[(s + j) % N]}

\* C14: with no concurrent status change GetNextPeer returns the first alive
\* backend in cyclic order from the index NextIndex produced: backends[(s+j)
\* mod n] for the smallest j in 0..n-1 whose backend is alive, never a
\* backend whose flag is false, and none only when no backend is alive.
C14_FirstAlive ==
    /\ [](LET s == next[1] IN
             /\ Selected(1) =>
                    /\ alive[peer[1] - 1]
                    /\ \E j \in AliveOffsets(s) :
                           /\ peer[1] - 1 = (s + j) % N
                           /\ \A d \in AliveOffsets(s) : j <= d
                           /\ Len(inspected[1]) = j + 1
             /\ (pc[1] = "rejected" /\ inspected[1] # << >>) =>
                    AliveOffsets(s) = {})
    /\ [][AddsCurrent(1) => next'[1] = (current + 1) % N]_vars

\* the call skipped two dead backends and wrapped around the end of the pool
C14_Witness ==
    /\ N = 4 /\ next[1] = 3
    /\ AliveSet = {1, 2}
    /\ pc[1] = "success" /\ peer[1] - 1 = 1
    /\ Len(inspected[1]) = 3

\* C15: a sequential GetNextPeer call that skips at least one dead backend
\* and returns backends[idx] leaves the counter equal to idx, so the next
\* call starts its scan at (idx+1) mod n; a call whose start index is alive
\* leaves the counter at the value NextIndex gave it.
C15_StoreBack ==
    /\ []((pc[1] \in {"forward", "success"} /\ Len(inspected[1]) > 1) =>
             current = peer[1] - 1)
    /\ [][/\ StoresCurrent(1) => current' = peer[1] - 1
          /\ (pc[1] = "scan" /\ pc'[1] = "forward") =>
                 /\ Len(inspected'[1]) = 1
                 /\ current' = current
                 /\ current % N = peer'[1] - 1
          /\ (AddsCurrent(1) /\ Len(inspected[1]) > 1 /\ peer[1] # NoPeer) =>
                 next'[1] = peer[1] % N
          /\ AddsCurrent(1) => next'[1] = (current + 1) % N
         ]_vars

\* the call started at index 1, skipped it and the end of the pool, returned
\* backends[0] and left the counter 0
C15_Witness ==
    /\ N = 3 /\ start = 3 /\ calls = 1
    /\ AliveSet = {0}
    /\ pc[1] = "success" /\ peer[1] - 1 = 0
    /\ Len(inspected[1]) = 3
    /\ current = 0

\* the value context c holds under key, or dflt when it holds none
ValueOr(c, key, dflt) == IF key \in DOMAIN c THEN c[key] ELSE dflt

\* C16: when a forward fails with retries < 3 the request is forwarded again
\* to the same backend with retries+1 and the same attempts value, without a
\* GetNextPeer call: the counter and every alive flag are unchanged, and the
\* forward is made whatever the backend's alive flag is at that moment.
C16_RetryFrame ==
    /\ [](\A r \in Reqs :
             (pc[r] = "forward" /\ ValueOr(ctx[r], Retry, 0) < 3) =>
                 ENABLED ErrorRetry(r))
    /\ [][\A r \in Reqs :
             ErrorRetry(r) =>
                 /\ ValueOr(ctx[r], Retry, 0) < 3
                 /\ ValueOr(ctx'[r], Retry, 0) = ValueOr(ctx[r], Retry, 0) + 1
                 /\ ValueOr(ctx'[r], Attempts, 1) = ValueOr(ctx[r], Attempts, 1)
                 /\ peer'[r] = peer[r] /\ pc'[r] = "forward"
                 /\ current' = current /\ alive' = alive /\ calls' = calls
                 /\ inspected'[r] = inspected[r]
                 /\ Len(log'[r]) = Len(log[r]) + 1
                 /\ LET e == log'[r][Len(log'[r])] IN
                        /\ e.peer = peer[r] - 1
                        /\ ~e.sel
                        /\ e.ret = ValueOr(ctx[r], Retry, 0) + 1
         ]_vars

\* a request is being retried on a backend whose alive flag is false
C16_Witness ==
    \E r \in Reqs :
        /\ pc[r] = "forward"
        /\ ValueOr(ctx[r], Retry, 0) = 2
        /\ ~log[r][Len(log[r])].sel
        /\ ~alive[peer[r] - 1]

\* the health checker makes its SetAlive call in this step
HealthSets == hcpc = "set" /\ hcpc' # "set"

\* request r's error handler takes its dead-marking branch in this step
Escalates(r) == pc[r] = "forward" /\ pc'[r] = "lb"

\* C17: an alive flag changes from true to false only by a health check
\* whose probe of that backend failed or by a request whose forward to that
\* backend failed with retries >= 3, and from false to true only by a health
\* check whose probe of that backend succeeded; no step of lb, NextIndex or
\* GetNextPeer, no successful forward and no same-backend retry changes it.
C17_AliveWriters ==
    [][/\ \A b \in Backends :
              /\ (alive[b] /\ ~alive'[b]) =>
                     \/ HealthSets /\ hcIdx = b /\ ~hcAlive
                     \/ \E r \in Reqs :
                            /\ Escalates(r)
                            /\ peer[r] - 1 = b
                            /\ ValueOr(ctx[r], Retry, 0) >= 3
              /\ (~alive[b] /\ alive'[b]) =>
                     HealthSets /\ hcIdx = b /\ hcAlive
       /\ (~HealthSets /\ \A r \in Reqs : ~Escalates(r)) => alive' = alive
      ]_vars

\* a request has marked a backend dead and a health check has set it alive
\* again
C17_Witness ==
    \E r \in Reqs :
        /\ ValueOr(ctx[r], Attempts, 1) = 2
        /\ marked[r] = {}
        /\ AliveSet = Backends
        /\ changed

\* C18: after a HealthCheck pass that runs with no concurrent writer every
\* backend's alive flag equals the result of its probe in that pass (a dead
\* backend whose probe succeeded is alive, an alive one whose probe failed is
\* dead), and the pass leaves the counter and the order and number of the
\* backends unchanged.
C18_PassSetsProbes ==
    /\ []((hcpc = "ticker" /\ probed # << >>) =>
             /\ Len(probed) = N
             /\ \A b \in Backends : alive[b] = probed[b + 1])
    /\ [](current = start)
    /\ [][/\ urls' = urls
          /\ DOMAIN alive' = DOMAIN alive
          /\ current' = current
          /\ hcpc = "set" => \A b \in Backends \ {hcIdx} : alive'[b] = alive[b]
         ]_vars

\* a pass on [alive, alive, dead] whose probes gave up, down, up has ended
C18_Witness ==
    /\ N = 3
    /\ arrAlive[1] = {0, 1}
    /\ hcpc = "ticker"
    /\ probed = <<TRUE, FALSE, TRUE>>
    /\ AliveSet = {0, 2}

\* request r's error handler takes its same-backend retry branch in this step
Retries(r) == pc[r] = "forward" /\ pc'[r] = "forward" /\ log'[r] # log[r]

\* C19: during the lifetime of a request attempts is in 1..4 and retries is
\* in 0..3; a same-backend retry increments retries only, an escalation
\* increments attempts only, no other step changes either, and so neither
\* counter ever decreases or is reset.
C19_Counters ==
    /\ [](\A r \in Reqs :
             /\ ValueOr(ctx[r], Attempts, 1) \in 1..4
             /\ ValueOr(ctx[r], Retry, 0) \in 0..3)
    /\ [][\A r \in Reqs :
             LET att == ValueOr(ctx[r], Attempts, 1)
                 ret == ValueOr(ctx[r], Retry, 0)
                 att2 == ValueOr(ctx'[r], Attempts, 1)
                 ret2 == ValueOr(ctx'[r], Retry, 0)
             IN  /\ Retries(r) => (ret2 = ret + 1 /\ att2 = att)
                 /\ Escalates(r) => (att2 = att + 1 /\ ret2 = ret)
                 /\ (~Terminal(r) /\ ~Retries(r) /\ ~Escalates(r)) =>
                        ctx'[r] = ctx[r]
                 /\ ~Terminal(r) => (att2 >= att /\ ret2 >= ret)
         ]_vars

\* a request has gone through every value of both counters
C19_Witness ==
    /\ pc[1] = "rejected"
    /\ ValueOr(ctx[1], Attempts, 1) = 4
    /\ ValueOr(ctx[1], Retry, 0) = 3
    /\ Len(log[1]) = 6

\* the request being handled marked backend b dead on an earlier attempt and
\* a health check has set b alive since
Revived(b) ==
    /\ alive[b]
    /\ b \notin marked[1]
    /\ \E k \in DOMAIN log[1] :
           /\ log[1][k].peer = b
           /\ log[1][k].att < ValueOr(ctx[1], Attempts, 1)

\* GetNextPeer calls that may be needed to reach a given alive backend: one
\* round of the pool (the model takes no new request after MaxCalls calls)
CallsToReach == N

\* C20: a backend the retry path marked dead (every backend starts alive and
\* every probe succeeds, so a dead backend is one the retry path marked)
\* becomes alive again when the health check's probe of it succeeds, and it
\* is then returned again by GetNextPeer, to the request that marked it or
\* to one that follows.
C20_RevivedAndReturned ==
    \A b \in 0..(ConcPool - 1) :
        /\ (~alive[b]) ~> alive[b]
        /\ (Revived(b) /\ calls + CallsToReach <= MaxCalls)
               ~> (Selected(1) /\ peer[1] - 1 = b)

\* the request marked backend 1 dead, a health check set it alive again and
\* the redispatched request has been given backend 1 again
C20_Witness ==
    /\ Revived(1)
    /\ pc[1] = "forward" /\ peer[1] - 1 = 1
    /\ log[1][Len(log[1])].sel
    /\ log[1][Len(log[1])].att = 3
    /\ calls + CallsToReach <= MaxCalls

====
